---------------------------- MODULE Spec2Model ----------------------------
(***************************************************************************)
(* Checkpoint persistence of gpt2-mlx (checkpoint.py): save_checkpoint     *)
(* writes a checkpoint directory (model weights, optimizer state,          *)
(* metadata) and load_checkpoint restores the checkpoint with the highest  *)
(* recorded step.  The file system below the checkpoint root and one save  *)
(* call and one load call, each with the objects (model, optimizer, data   *)
(* loader) handed to it, are the state.                                    *)
(***************************************************************************)
EXTENDS Integers, Sequences, FiniteSets, TLC

VARIABLES
    rootExists,   \* os.path.exists(checkpoint_dir)
    fs,           \* entry name -> entry of checkpoint_dir
    sv,           \* the running save_checkpoint call: its arguments (model,
                  \* optimizer, data loader, step, is_final) and position
    ld,           \* the last load_checkpoint call: the model, optimizer and
                  \* data loader handed to it, its position, locals, result
    calls,        \* history: arguments and fate of every save_checkpoint call
    nTamper       \* history: number of changes made to the root from outside

vars == <<rootExists, fs, sv, ld, calls, nTamper>>

(***************************************************************************)
(* Bounds of the model.                                                    *)
(***************************************************************************)
MaxStep == 1      \* steps passed to save_checkpoint are 0..MaxStep
MaxOps == 2       \* save_checkpoint calls plus outside changes to the root
MaxLen == 2       \* length of a list in an optimizer state

Steps == 0 .. MaxStep

(***************************************************************************)
(* Nested optimizer state.  A tree is a leaf (an array, here a number), a  *)
(* dict (a set of key/child items; keys are strings, held as the sequence  *)
(* of their "."-separated segments) or a list (a sequence of children).    *)
(***************************************************************************)
Leaf(v) == [kind |-> "leaf", val |-> v, items |-> {}, elems |-> <<>>]
DictT(its) == [kind |-> "dict", val |-> 0, items |-> its, elems |-> <<>>]
ListT(es) == [kind |-> "list", val |-> 0, items |-> {}, elems |-> es]
Item(k, t) == [k |-> k, t |-> t]

\* str(i) for a list index, and the segments int() accepts
IntStr == <<"0", "1", "2", "3">>
IsInt(seg) == \E i \in 1 .. Len(IntStr) : IntStr[i] = seg
ParseInt(seg) == (CHOOSE i \in 1 .. Len(IntStr) : IntStr[i] = seg) - 1

\* mlx.utils.tree_flatten(tree, prefix): the (key, leaf) pairs of a tree;
\* a key is the "."-joined path, held as its sequence of segments.
RECURSIVE TreeFlatten(_, _)
TreeFlatten(tree, prefix) ==
    CASE tree.kind = "list" ->
           UNION { TreeFlatten(tree.elems[i], prefix \o <<IntStr[i]>>) :
                   i \in 1 .. Len(tree.elems) }
      [] tree.kind = "dict" ->
           UNION { TreeFlatten(it.t, prefix \o it.k) : it \in tree.items }
      [] OTHER -> { <<prefix, tree.val>> }

\* key.split(".", maxsplit=1): the first segment and the remaining key
FirstSeg(key) == IF key = <<>> THEN "" ELSE Head(key)
RestKey(key) == IF key = <<>> THEN <<>> ELSE Tail(key)

\* mlx.utils.tree_unflatten(flat): the nested tree of a set of (key, leaf)
\* pairs.  Children are grouped by the first segment of their key; when
\* every group name is an integer the node is a list (gaps filled with empty
\* dicts), otherwise a dict.
RECURSIVE TreeUnflatten(_)
TreeUnflatten(flat) ==
    IF Cardinality(flat) = 1 /\ (\E p \in flat : p[1] = <<>>)
    THEN Leaf((CHOOSE p \in flat : TRUE)[2])
    ELSE LET idxs == { FirstSeg(p[1]) : p \in flat }
             children(s) == { <<RestKey(p[1]), p[2]>> :
                              p \in { q \in flat : FirstSeg(q[1]) = s } }
         IN  IF \A s \in idxs : IsInt(s)
             THEN LET n == IF idxs = {} THEN 0
                           ELSE 1 + ParseInt(CHOOSE s \in idxs :
                                    \A r \in idxs : ParseInt(r) <= ParseInt(s))
                  IN  ListT([i \in 1 .. n |->
                             IF IntStr[i] \in idxs
                             THEN TreeUnflatten(children(IntStr[i]))
                             ELSE DictT({})])
             ELSE DictT({ Item(<<s>>, TreeUnflatten(children(s))) : s \in idxs })

\* Optimizer states the training loop can hold: Adam-like moments under a
\* parameter tree, and the same with a parameter-less submodule (an empty
\* dict) beside it.
OptA == DictT({ Item(<<"step">>, Leaf(1)),
                Item(<<"w">>, DictT({ Item(<<"m">>, Leaf(2)) })) })
OptB == DictT({ Item(<<"step">>, Leaf(2)),
                Item(<<"w">>, DictT({ Item(<<"m">>, Leaf(3)) })),
                Item(<<"act">>, DictT({})) })

(***************************************************************************)
(* The checkpoint root.  An entry of the root is missing, a plain file or  *)
(* a directory holding up to three artifacts.  Every artifact carries "by",*)
(* the number of the save_checkpoint call that wrote it (0: none); "by" is *)
(* history, no code reads it.                                              *)
(***************************************************************************)
Final == <<"final">>
StepDir(step) == <<"checkpoint_step_", step>>
Stray == <<"notes">>
Names == {Final, Stray} \cup { StepDir(s) : s \in Steps }

NoModel == [st |-> "absent", w |-> "", by |-> 0]
NoOpt == [st |-> "absent", flat |-> {}, by |-> 0]
NoMeta == [st |-> "absent", kv |-> <<>>, by |-> 0]
NoEntry == [kind |-> "none", model |-> NoModel, opt |-> NoOpt, meta |-> NoMeta]
EmptyDir == [NoEntry EXCEPT !.kind = "dir"]
PlainFile == [NoEntry EXCEPT !.kind = "file"]
\* a metadata.npz that mx.load cannot read (truncated, not an archive)
Unreadable == [st |-> "corrupt", kv |-> <<>>, by |-> 0]

\* the data loader's shard files and load_tokens(file)
ShardFile(i) == <<"shard", i>>
LoadTokens(file) == <<"tokens", file[2]>>
\* data_loader.shards of a loader over the whole data set
AllShards == <<ShardFile(0), ShardFile(1)>>
DataLoader(s, p) ==
    [current_shard |-> s, current_position |-> p, shards |-> AllShards,
     tokens |-> LoadTokens(AllShards[s + 1])]

(***************************************************************************)
(* save_checkpoint                                                         *)
(***************************************************************************)
\* faulty variant: the step is not formatted into the directory name
CheckpointNameNoStep(is_final, step) == IF is_final THEN Final ELSE StepDir(0)

\* faulty variant: every call writes the directory final
CheckpointNameAlwaysFinal(is_final, step) == Final

\* line 12: the directory a call writes
CheckpointName(is_final, step) == IF is_final THEN Final ELSE StepDir(step)

\* line 14: os.makedirs(checkpoint_path, exist_ok=True)
Makedirs(entry) == IF entry.kind = "dir" THEN entry ELSE EmptyDir

\* lines 17-18: model.save_weights(model_weights_path)
WriteModel(entry, id, m) ==
    [entry EXCEPT !.model = [st |-> "ok", w |-> m, by |-> id]]

\* lines 21-24: the flattened optimizer state as one archive
WriteOptimizer(entry, id, o) ==
    [entry EXCEPT !.opt = [st |-> "ok", flat |-> TreeFlatten(o, <<>>), by |-> id]]

\* faulty variant: the position of the loader is not recorded
MetadataShardOnly(step, withDL, loader) ==
    IF withDL
    THEN ("step" :> step) @@ ("data_shard" :> loader.current_shard)
    ELSE ("step" :> step)

\* lines 28-33: the metadata mapping
Metadata(step, withDL, loader) ==
    IF withDL
    THEN ("step" :> step) @@ ("data_shard" :> loader.current_shard)
                          @@ ("data_position" :> loader.current_position)
    ELSE ("step" :> step)

\* faulty variant: the archive is updated, keys of an older archive survive
WriteMetadataMerging(entry, id, step, withDL, loader) ==
    [entry EXCEPT !.meta = [st |-> "ok", by |-> id,
                            kv |-> Metadata(step, withDL, loader) @@ entry.meta.kv]]

\* lines 27-35: the metadata archive
WriteMetadata(entry, id, step, withDL, loader) ==
    [entry EXCEPT !.meta = [st |-> "ok", kv |-> Metadata(step, withDL, loader),
                            by |-> id]]

\* The objects a training loop hands to save_checkpoint: weights, a nested
\* optimizer state and a data loader at some cursor.
TrainStates ==
    { [model |-> "w1", opt |-> OptA, loader |-> DataLoader(0, 1)],
      [model |-> "w2", opt |-> OptB, loader |-> DataLoader(1, 0)] }
\* The objects a program hands to load_checkpoint when it starts: a model, an
\* optimizer and a data loader as constructed.
Fresh == [model |-> "w0", opt |-> DictT({ Item(<<"step">>, Leaf(0)) }),
          loader |-> DataLoader(0, 0)]

\* The same, with a data loader over a data set of one shard only.
Short == [Fresh EXCEPT !.loader.shards = <<ShardFile(0)>>]

StartStates == {Fresh}

\* line 10: the arguments of a call; data_loader is t.loader or None
Args(t, step, is_final, withDL) ==
    [model |-> t.model, opt |-> t.opt, loader |-> t.loader,
     step |-> step, is_final |-> is_final, withDL |-> withDL]
NoArgs == Args(Fresh, 0, FALSE, FALSE)

\* no save_checkpoint call is running
SvIdle == [pc |-> "idle", id |-> 0, path |-> Final, args |-> NoArgs]

\* a call as history: its arguments, its directory and how it ended
CallRecord(a, fate) ==
    [args |-> a, path |-> CheckpointName(a.is_final, a.step), fate |-> fate]

\* load_checkpoint's return value: (next step, cursor or None)
NoneCursor == [has |-> FALSE, shard |-> 0, position |-> 0]
Cursor(s, p) == [has |-> TRUE, shard |-> s, position |-> p]
Ret(next, cursor) == [step |-> next, cursor |-> cursor]

\* no load_checkpoint call has run.  model, opt and dl are the objects handed
\* to the call (dl is the loader the caller holds, handed over when withDL);
\* sel tells whether a checkpoint was selected.  m0, o0 and dl0 are the
\* objects as they were when the call started and byModel, byOpt, byMeta,
\* byCursor the writers of the artifacts it read, and listing the order in
\* which os.listdir gave the subdirectories: history, no code reads
\* them.
LdIdle == [pc |-> "idle", withDL |-> FALSE, sel |-> FALSE, step |-> 0,
           listing |-> <<>>,
           path |-> Final, ret |-> Ret(0, NoneCursor),
           model |-> Fresh.model, opt |-> Fresh.opt, dl |-> Fresh.loader,
           m0 |-> Fresh.model, o0 |-> Fresh.opt, dl0 |-> Fresh.loader,
           byModel |-> 0, byOpt |-> 0, byMeta |-> 0, byCursor |-> 0]
\* a returned or failed load_checkpoint call is over once the program goes on
Forget(l) == IF l.pc \in {"done", "raised"} THEN LdIdle ELSE l

\* lines 12-35: the directory of a call when nothing interrupts it
Written(entry, id, a) ==
    WriteMetadata(
        WriteOptimizer(WriteModel(Makedirs(entry), id, a.model), id, a.opt),
        id, a.step, a.withDL, a.loader)

\* lines 10-36, one call from start to return
SaveCheckpoint(a) ==
    /\ sv.pc = "idle"
    /\ Len(calls) + nTamper < MaxOps
    /\ rootExists' = TRUE
    /\ fs' = [fs EXCEPT ![CheckpointName(a.is_final, a.step)] =
                 Written(@, Len(calls) + 1, a)]
    /\ calls' = Append(calls, CallRecord(a, "done"))
    /\ ld' = Forget(ld)
    /\ UNCHANGED <<sv, nTamper>>

\* lines 10-14: the call starts, names its directory and creates it
SaveBegin(a) ==
    /\ sv.pc = "idle"
    /\ Len(calls) + nTamper < MaxOps
    /\ rootExists' = TRUE
    /\ fs' = [fs EXCEPT ![CheckpointName(a.is_final, a.step)] = Makedirs(@)]
    /\ sv' = [pc |-> "model", id |-> Len(calls) + 1,
              path |-> CheckpointName(a.is_final, a.step), args |-> a]
    /\ calls' = Append(calls, CallRecord(a, "running"))
    /\ ld' = Forget(ld)
    /\ UNCHANGED <<nTamper>>

\* lines 17-18
SaveModel ==
    /\ sv.pc = "model"
    /\ fs' = [fs EXCEPT ![sv.path] = WriteModel(@, sv.id, sv.args.model)]
    /\ sv' = [sv EXCEPT !.pc = "opt"]
    /\ UNCHANGED <<rootExists, ld, calls, nTamper>>

\* lines 21-24
SaveOptimizer ==
    /\ sv.pc = "opt"
    /\ fs' = [fs EXCEPT ![sv.path] = WriteOptimizer(@, sv.id, sv.args.opt)]
    /\ sv' = [sv EXCEPT !.pc = "meta"]
    /\ UNCHANGED <<rootExists, ld, calls, nTamper>>

\* lines 27-36: the metadata archive is written last and the call returns
SaveMetadata ==
    /\ sv.pc = "meta"
    /\ fs' = [fs EXCEPT ![sv.path] =
                 WriteMetadata(@, sv.id, sv.args.step, sv.args.withDL, sv.args.loader)]
    /\ sv' = SvIdle
    /\ calls' = [calls EXCEPT ![sv.id].fate = "done"]
    /\ UNCHANGED <<rootExists, ld, nTamper>>

\* a crash, or a storage error raised by a write (lines 18, 24, 35): the call
\* stops where it is
SaveCrash ==
    /\ sv.pc \in {"model", "opt", "meta"}
    /\ sv' = SvIdle
    /\ calls' = [calls EXCEPT ![sv.id].fate = "crashed"]
    /\ UNCHANGED <<rootExists, fs, ld, nTamper>>

(***************************************************************************)
(* The root as load_checkpoint may find it: other programs, an operator or *)
(* a failing disk change it between two calls.                             *)
(***************************************************************************)
Artifacts == {"model", "opt", "meta"}
MetaKeys == {"step", "data_shard", "data_position"}
Restrict(f, S) == [x \in (DOMAIN f) \cap S |-> f[x]]

RemoveArtifact(entry, a) ==
    CASE a = "model" -> [entry EXCEPT !.model = NoModel]
      [] a = "opt" -> [entry EXCEPT !.opt = NoOpt]
      [] OTHER -> [entry EXCEPT !.meta = NoMeta]

Tamper ==
    /\ sv.pc = "idle"
    /\ ld.pc \in {"idle", "done", "raised"}
    /\ Len(calls) + nTamper < MaxOps
    /\ nTamper' = nTamper + 1
    /\ ld' = LdIdle
    /\ \/ \* the root is created empty
          /\ ~rootExists
          /\ rootExists' = TRUE
          /\ fs' = fs
       \/ \* an entry no save_checkpoint call wrote appears in the root: a
          \* plain file, an empty directory, a directory holding a
          \* metadata.npz that cannot be read
          \E e \in {PlainFile, EmptyDir, [EmptyDir EXCEPT !.meta = Unreadable]} :
             /\ rootExists
             /\ fs[Stray].kind = "none"
             /\ fs' = [fs EXCEPT ![Stray] = e]
             /\ rootExists' = rootExists
       \/ \* an artifact of a checkpoint directory is deleted
          \E d \in Names, a \in Artifacts :
             /\ fs[d].kind = "dir"
             /\ fs[d][a].st # "absent"
             /\ fs' = [fs EXCEPT ![d] = RemoveArtifact(@, a)]
             /\ rootExists' = rootExists
       \/ \* a metadata archive becomes unreadable
          \E d \in Names :
             /\ fs[d].kind = "dir"
             /\ fs[d].meta.st = "ok"
             /\ fs' = [fs EXCEPT ![d].meta = Unreadable]
             /\ rootExists' = rootExists
       \/ \* a metadata archive lacks one of its keys
          \E d \in Names, k \in MetaKeys :
             /\ fs[d].kind = "dir"
             /\ fs[d].meta.st = "ok"
             /\ k \in DOMAIN fs[d].meta.kv
             /\ fs' = [fs EXCEPT ![d].meta =
                          [st |-> "ok", by |-> 0,
                           kv |-> Restrict(@.kv, (DOMAIN @.kv) \ {k})]]
             /\ rootExists' = rootExists
    /\ UNCHANGED <<sv, calls>>

(***************************************************************************)
(* load_checkpoint                                                         *)
(***************************************************************************)
\* line 47: os.listdir(checkpoint_dir)
Listdir == { n \in Names : fs[n].kind # "none" }

\* lines 47-49: the subdirectories of the root, in the order os.listdir gives
\* them, which is any order
Subdirs == { n \in Listdir : fs[n].kind = "dir" }
RECURSIVE Orders(_)
Orders(S) ==
    IF S = {} THEN { <<>> }
    ELSE UNION { { <<x>> \o o : o \in Orders(S \ {x}) } : x \in S }

\* lines 49-51: a directory with a metadata.npz in it
HasMetadata(entry) == entry.kind = "dir" /\ entry.meta.st # "absent"

\* lines 52-53: mx.load(metadata_path) and metadata["step"] succeed
Readable(meta) == meta.st = "ok" /\ "step" \in DOMAIN meta.kv

\* faulty variant: a directory without metadata.npz counts, with step 0
RECURSIVE ScanAllDirs(_)
ScanAllDirs(listing) ==
    IF listing = <<>> THEN <<>>
    ELSE LET item == Head(listing)
         IN  << <<IF HasMetadata(fs[item]) THEN fs[item].meta.kv["step"] ELSE 0,
                  item>> >> \o ScanAllDirs(Tail(listing))

\* lines 46-54: the (step, path) pairs of the entries, in listing order
RECURSIVE Scan(_)
Scan(listing) ==
    IF listing = <<>> THEN <<>>
    ELSE LET item == Head(listing)
         IN  IF HasMetadata(fs[item])
             THEN << <<fs[item].meta.kv["step"], item>> >> \o Scan(Tail(listing))
             ELSE Scan(Tail(listing))

\* lines 52-53 raise for some entry of the root
ScanRaises == \E n \in Listdir : HasMetadata(fs[n]) /\ ~Readable(fs[n].meta)

\* faulty variant: a sort that puts the last of equal steps first
RECURSIVE SortByStepDescUnstable(_)
SortByStepDescUnstable(cps) ==
    IF cps = <<>> THEN <<>>
    ELSE LET top == CHOOSE i \in 1 .. Len(cps) :
                      /\ \A j \in 1 .. Len(cps) : cps[j][1] <= cps[i][1]
                      /\ \A j \in (i + 1) .. Len(cps) : cps[j][1] < cps[i][1]
         IN  <<cps[top]>> \o
             SortByStepDescUnstable(SubSeq(cps, 1, top - 1)
                                    \o SubSeq(cps, top + 1, Len(cps)))

\* line 60: checkpoints.sort(key=step, reverse=True), a stable sort
RECURSIVE SortByStepDesc(_)
SortByStepDesc(cps) ==
    IF cps = <<>> THEN <<>>
    ELSE LET top == CHOOSE i \in 1 .. Len(cps) :
                      /\ \A j \in 1 .. Len(cps) : cps[j][1] <= cps[i][1]
                      /\ \A j \in 1 .. (i - 1) : cps[j][1] < cps[i][1]
         IN  <<cps[top]>> \o
             SortByStepDesc(SubSeq(cps, 1, top - 1) \o SubSeq(cps, top + 1, Len(cps)))

\* lines 59-61: the checkpoint to load
Latest(cps) == SortByStepDesc(cps)[1]

\* faulty variant: a missing data_position is read as 0
CursorOfDefaulting(kv) ==
    IF "data_shard" \in DOMAIN kv
    THEN Cursor(kv["data_shard"],
                IF "data_position" \in DOMAIN kv THEN kv["data_position"] ELSE 0)
    ELSE NoneCursor

\* lines 81-84: the cursor recorded in the metadata
CursorOf(kv) ==
    IF "data_shard" \in DOMAIN kv /\ "data_position" \in DOMAIN kv
    THEN Cursor(kv["data_shard"], kv["data_position"])
    ELSE NoneCursor

\* faulty variant: the tokens of the restored shard are not loaded
RestoreLoaderStaleTokens(loader, withDL, cursor) ==
    IF withDL /\ cursor.has
    THEN [loader EXCEPT !.current_shard = cursor.shard,
                        !.current_position = cursor.position]
    ELSE loader

\* lines 86-91: the data loader after the restore
RestoreLoader(loader, withDL, cursor) ==
    IF withDL /\ cursor.has
    THEN [loader EXCEPT !.current_shard = cursor.shard,
                        !.current_position = cursor.position,
                        !.tokens = LoadTokens(loader.shards[cursor.shard + 1])]
    ELSE loader

\* line 91: data_loader.shards[data_shard] raises IndexError
RestoreRaises(loader, withDL, cursor) ==
    withDL /\ cursor.has /\ cursor.shard >= Len(loader.shards)

\* lines 87-88: the data loader when line 91 raises
HalfRestored(loader, cursor) ==
    [loader EXCEPT !.current_shard = cursor.shard,
                   !.current_position = cursor.position]

\* lines 65-66: the model after the restore
RestoredModel(entry, m) == IF entry.model.st = "ok" THEN entry.model.w ELSE m

\* faulty variant: without the artifact the optimizer state is emptied
RestoredOptimizerResetting(entry, o) ==
    IF entry.opt.st = "ok" THEN TreeUnflatten(entry.opt.flat) ELSE DictT({})

\* lines 71-76: optimizer.state after the restore
RestoredOptimizer(entry, o) ==
    IF entry.opt.st = "ok" THEN TreeUnflatten(entry.opt.flat) ELSE o

\* the writer of an artifact that was read, 0 when it was not there
ReadBy(file) == IF file.st = "ok" THEN file.by ELSE 0

\* line 39: the call starts with the objects t handed to it
Started(withDL, t) ==
    [LdIdle EXCEPT !.withDL = withDL,
                   !.model = t.model, !.opt = t.opt, !.dl = t.loader,
                   !.m0 = t.model, !.o0 = t.opt, !.dl0 = t.loader]

\* line 61: step, checkpoint_path = checkpoints[0]
Selected(l, latest) ==
    [l EXCEPT !.pc = "model", !.sel = TRUE, !.step = latest[1],
              !.path = latest[2], !.byMeta = fs[latest[2]].meta.by]

\* faulty variant: no early return at lines 56-57: checkpoints[0] raises
DiscoveredNoEarlyReturn(l, listing) ==
    IF ~rootExists
    THEN [l EXCEPT !.pc = "done", !.ret = Ret(0, NoneCursor)]
    ELSE IF ScanRaises \/ Scan(listing) = <<>>
    THEN [l EXCEPT !.pc = "raised"]
    ELSE Selected(l, Latest(Scan(listing)))

\* lines 42-61: the call finds the checkpoints and selects the latest
Discovered(l, listing) ==
    IF ~rootExists
    THEN [l EXCEPT !.pc = "done", !.ret = Ret(0, NoneCursor)]
    ELSE IF ScanRaises
    THEN [l EXCEPT !.pc = "raised"]
    ELSE IF Scan(listing) = <<>>
    THEN [l EXCEPT !.pc = "done", !.ret = Ret(0, NoneCursor)]
    ELSE Selected(l, Latest(Scan(listing)))

\* lines 63-67
AfterModel(l) ==
    IF l.pc # "model" THEN l
    ELSE [l EXCEPT !.pc = "opt", !.model = RestoredModel(fs[l.path], l.model),
                   !.byModel = ReadBy(fs[l.path].model)]

\* lines 69-76
AfterOptimizer(l) ==
    IF l.pc # "opt" THEN l
    ELSE [l EXCEPT !.pc = "meta", !.opt = RestoredOptimizer(fs[l.path], l.opt),
                   !.byOpt = ReadBy(fs[l.path].opt)]

\* lines 78-97: the metadata is read again, the cursor built, the data loader
\* restored, the call returns
AfterMetadata(l) ==
    LET file == fs[l.path].meta
    IN  IF l.pc # "meta" THEN l
        ELSE IF file.st # "ok"
        THEN [l EXCEPT !.pc = "raised"]
        ELSE IF RestoreRaises(l.dl, l.withDL, CursorOf(file.kv))
        THEN [l EXCEPT !.pc = "raised", !.byCursor = file.by,
                       !.dl = HalfRestored(l.dl, CursorOf(file.kv))]
        ELSE [l EXCEPT !.pc = "done", !.byCursor = file.by,
                       !.dl = RestoreLoader(l.dl, l.withDL, CursorOf(file.kv)),
                       !.ret = Ret(l.step + 1, CursorOf(file.kv))]

\* lines 39-97, one call from start to return
LoadCheckpoint(withDL, t) ==
    /\ sv.pc = "idle"
    /\ ld.pc \in {"idle", "done", "raised"}
    /\ \E listing \in Orders(Subdirs) :
          \E found \in {Discovered([Started(withDL, t) EXCEPT !.listing = listing],
                                    listing)} :
             \E read \in {AfterOptimizer(AfterModel(found))} :
                ld' = AfterMetadata(read)
    /\ UNCHANGED <<rootExists, fs, sv, calls, nTamper>>

\* lines 39-61
LoadBegin(withDL, t) ==
    /\ ld.pc \in {"idle", "done", "raised"}
    /\ \E listing \in Orders(Subdirs) :
          ld' = Discovered([Started(withDL, t) EXCEPT !.listing = listing],
                           listing)
    /\ UNCHANGED <<rootExists, fs, sv, calls, nTamper>>

\* lines 63-67
LoadModel ==
    /\ ld.pc = "model"
    /\ ld' = AfterModel(ld)
    /\ UNCHANGED <<rootExists, fs, sv, calls, nTamper>>

\* lines 69-76
LoadOptimizer ==
    /\ ld.pc = "opt"
    /\ ld' = AfterOptimizer(ld)
    /\ UNCHANGED <<rootExists, fs, sv, calls, nTamper>>

\* lines 78-97
LoadMetadata ==
    /\ ld.pc = "meta"
    /\ ld' = AfterMetadata(ld)
    /\ UNCHANGED <<rootExists, fs, sv, calls, nTamper>>

Init ==
    /\ rootExists = FALSE
    /\ fs = [n \in Names |-> NoEntry]
    /\ sv = SvIdle
    /\ ld = LdIdle
    /\ calls = <<>>
    /\ nTamper = 0

SaveArgs == { Args(t, step, is_final, withDL) :
              t \in TrainStates, step \in Steps,
              is_final \in BOOLEAN, withDL \in BOOLEAN }

(***************************************************************************)
(* Spec: the calls of one program, one after the other, on a root that     *)
(* changes from outside between them.                                      *)
(***************************************************************************)
Save == \E a \in SaveArgs : SaveCheckpoint(a)

Load == \E withDL \in BOOLEAN, t \in StartStates : LoadCheckpoint(withDL, t)

Next ==
    \/ Save
    \/ Load
    \/ Tamper

Spec == Init /\ [][Next]_vars

(***************************************************************************)
(* SpecCrash: a save_checkpoint call goes write by write and may stop      *)
(* after any of them (a crash, a storage error); load_checkpoint runs      *)
(* between the calls.  Nothing else touches the root.                      *)
(***************************************************************************)
SaveStart == \E a \in SaveArgs : SaveBegin(a)

NextCrash ==
    \/ SaveStart
    \/ SaveModel
    \/ SaveOptimizer
    \/ SaveMetadata
    \/ SaveCrash
    \/ Load

SpecCrash == Init /\ [][NextCrash]_vars

(***************************************************************************)
(* SpecConc: a save_checkpoint call and a load_checkpoint call on the same *)
(* root, interleaved; every write of a file and every read of an artifact  *)
(* is one step (the reads of the metadata archives at line 52 are one).    *)
(***************************************************************************)
LoadStart == \E withDL \in BOOLEAN, t \in StartStates : LoadBegin(withDL, t)

NextConc ==
    \/ SaveStart
    \/ SaveModel
    \/ SaveOptimizer
    \/ SaveMetadata
    \/ LoadStart
    \/ LoadModel
    \/ LoadOptimizer
    \/ LoadMetadata

SpecConc == Init /\ [][NextConc]_vars

(***************************************************************************)
(* SpecTree: one save_checkpoint call with an optimizer state of any       *)
(* bounded shape, then load_checkpoint.  A state is a dict whose children  *)
(* are arrays, dicts of arrays (empty, with names for keys, with a number  *)
(* for a key) or lists of arrays (empty or up to MaxLen long).             *)
(***************************************************************************)
Leaves == {Leaf(1), Leaf(2)}
TreeKeys == {{"a"}, {"a", "b"}, {"0"}}
DictsOver(C) ==
    UNION { { DictT({ Item(<<k>>, f[k]) : k \in K }) : f \in [K -> C] } :
            K \in TreeKeys }
Children ==
    Leaves \cup {DictT({}), ListT(<<>>)} \cup DictsOver(Leaves)
           \cup UNION { { ListT(q) : q \in [1 .. n -> Leaves] } : n \in 1 .. MaxLen }
Trees == DictsOver(Children)

SaveTree ==
    \E x \in Trees :
       /\ calls = <<>>
       /\ SaveCheckpoint(Args([model |-> "w1", opt |-> x,
                                loader |-> DataLoader(0, 0)], 0, TRUE, FALSE))

NextTree ==
    \/ SaveTree
    \/ Load

SpecTree == Init /\ [][NextTree]_vars

(***************************************************************************)
(* SpecLoader: save_checkpoint calls, and load_checkpoint calls that are   *)
(* handed a live data loader, over the whole data set or over a data set   *)
(* that has fewer shards than the one the checkpoint was written with.     *)
(***************************************************************************)
LoaderStates == {Fresh, Short}

LoadLive == \E t \in LoaderStates : LoadCheckpoint(TRUE, t)

NextLoader ==
    \/ Save
    \/ LoadLive

SpecLoader == Init /\ [][NextLoader]_vars

(***************************************************************************)
(* Properties.                                                             *)
(***************************************************************************)
LoadEnded == ld.pc \in {"done", "raised"}

\* the directory a call names, from its arguments
NamedDir(a) == IF a.is_final THEN Final ELSE StepDir(a.step)

\* every artifact of directory d is there as call k wrote it
WholeBy(d, k) ==
    /\ fs[d].kind = "dir"
    /\ fs[d].model.st = "ok" /\ fs[d].model.by = k
    /\ fs[d].opt.st = "ok" /\ fs[d].opt.by = k
    /\ fs[d].meta.st = "ok" /\ fs[d].meta.by = k

\* the subdirectories with a readable metadata artifact that records a step
Candidates ==
    { n \in Names : /\ fs[n].kind = "dir"
                    /\ fs[n].meta.st = "ok"
                    /\ "step" \in DOMAIN fs[n].meta.kv }
\* the subdirectories whose metadata artifact is there and cannot be used
UnreadableDirs ==
    { n \in Names : /\ fs[n].kind = "dir"
                    /\ fs[n].meta.st # "absent"
                    /\ n \notin Candidates }
MaxRecordedStep ==
    CHOOSE m \in { fs[n].meta.kv["step"] : n \in Candidates } :
        \A n \in Candidates : fs[n].meta.kv["step"] <= m

\* the recorded cursor, if one is to be restored, names a shard of the loader
ShardKnown ==
    LET kv == fs[ld.path].meta.kv
    IN  (ld.withDL /\ {"data_shard", "data_position"} \subseteq DOMAIN kv)
        => kv["data_shard"] < Len(ld.dl0.shards)

\* C1 (as claimed): save_checkpoint(M, O, S, root, data_loader=C) into a root
\* that holds nothing else, then load_checkpoint: the model is M, the
\* optimizer state O, the loader's cursor C's, and the call returns S + 1
\* with the cursor {shard, position} of C.  (The loader handed to the load
\* has the shard C is in.)
RoundTrip ==
    \A k \in 1 .. Len(calls) :
       LET a == calls[k].args
       IN  (/\ LoadEnded
            /\ calls[k].fate = "done"
            /\ a.withDL
            /\ Listdir = {NamedDir(a)}
            /\ WholeBy(NamedDir(a), k)
            /\ ShardKnown)
           => /\ ld.pc = "done"
              /\ ld.model = a.model
              /\ ld.opt = a.opt
              /\ ld.withDL => /\ ld.dl.current_shard = a.loader.current_shard
                              /\ ld.dl.current_position = a.loader.current_position
              /\ ld.ret = Ret(a.step + 1, Cursor(a.loader.current_shard,
                                                  a.loader.current_position))

\* the one checkpoint of the root is loaded, weights, step and cursor are
\* the saved ones, and the optimizer state is not the saved one
RoundTripLoss ==
    \E k \in 1 .. Len(calls) :
       LET a == calls[k].args
       IN  /\ ld.pc = "done"
           /\ calls[k].fate = "done"
           /\ a.withDL
           /\ Listdir = {NamedDir(a)}
           /\ WholeBy(NamedDir(a), k)
           /\ ld.model = a.model
           /\ ld.ret = Ret(a.step + 1, Cursor(a.loader.current_shard,
                                               a.loader.current_position))
           /\ ld.opt # a.opt
           /\ ld.opt = TreeUnflatten(TreeFlatten(a.opt, <<>>))

\* C2 (as claimed): whenever the root has a candidate, load_checkpoint
\* returns, having restored from a candidate whose recorded step is the
\* maximum over the candidates, and returns that maximum + 1.  (The loader
\* handed to the load has the recorded shard.)
LatestWins ==
    (LoadEnded /\ rootExists /\ Candidates # {} /\ ShardKnown)
    => /\ ld.pc = "done"
       /\ ld.sel
       /\ ld.path \in Candidates
       /\ fs[ld.path].meta.kv["step"] = MaxRecordedStep
       /\ ld.ret.step = MaxRecordedStep + 1
       /\ fs[ld.path].model.st = "ok" => ld.model = fs[ld.path].model.w

\* a checkpoint a call completed is in the root and load_checkpoint raises
LatestWinsRaised ==
    /\ ld.pc = "raised" /\ ~ld.sel
    /\ rootExists
    /\ \E k \in 1 .. Len(calls) :
          calls[k].fate = "done" /\ WholeBy(calls[k].path, k)
                                 /\ calls[k].path \in Candidates

\* C3 (as claimed): a save_checkpoint call that stops before it returns
\* does not leave its directory a candidate, so load_checkpoint never
\* restores artifacts that come from the interrupted write; this also when
\* the call wrote into a directory of an earlier, completed checkpoint.
CrashSafe ==
    /\ \A k \in 1 .. Len(calls) :
          (/\ calls[k].fate = "crashed"
           /\ k \in {fs[calls[k].path].model.by, fs[calls[k].path].opt.by})
          => calls[k].path \notin Candidates
    /\ (ld.pc = "done" /\ ld.sel)
       => \A b \in {ld.byModel, ld.byOpt, ld.byMeta, ld.byCursor} :
             b = 0 \/ calls[b].fate # "crashed"

\* load_checkpoint returned weights of a call that stopped, under the
\* metadata of an earlier call that returned
CrashMixed ==
    /\ ld.pc = "done" /\ ld.sel
    /\ ld.byModel \in 1 .. Len(calls)
    /\ ld.byMeta \in 1 .. Len(calls)
    /\ calls[ld.byModel].fate = "crashed"
    /\ calls[ld.byMeta].fate = "done"
    /\ ld.model # calls[ld.byMeta].args.model

\* the files of a directory entry, without the record of who wrote them
Content(entry) ==
    [kind |-> entry.kind,
     model |-> [st |-> entry.model.st, w |-> entry.model.w],
     opt |-> [st |-> entry.opt.st, flat |-> entry.opt.flat],
     meta |-> [st |-> entry.meta.st, kv |-> entry.meta.kv]]

\* directory d holds the checkpoint of a call that returned
CompleteDir(d) ==
    \E k \in 1 .. Len(calls) : calls[k].fate = "done" /\ WholeBy(d, k)

\* this step is of a save_checkpoint call that names directory d
Rewrites(d) ==
    \/ Len(calls') = Len(calls) + 1 /\ NamedDir(calls'[Len(calls')].args) = d
    \/ sv.pc # "idle" /\ NamedDir(sv.args) = d

\* C4 (as claimed): once a checkpoint directory is complete, no later
\* save_checkpoint or load_checkpoint call changes its contents.
Immutable ==
    [][nTamper' = nTamper
       => \A d \in Names :
             CompleteDir(d) => Content(fs'[d]) = Content(fs[d])]_vars

\* C4 (amended): a complete checkpoint directory is left as it is by
\* load_checkpoint and by every save_checkpoint call that names another
\* directory; only a call that names the same directory rewrites it.
ImmutableUnlessRewritten ==
    [][nTamper' = nTamper
       => \A d \in Names :
             (CompleteDir(d) /\ ~Rewrites(d))
             => Content(fs'[d]) = Content(fs[d])]_vars

\* two checkpoints written and one loaded, the first directory still whole
ImmutableWitness ==
    /\ Len(calls) = 2
    /\ nTamper = 0
    /\ calls[1].path # calls[2].path
    /\ calls[1].fate = "done" /\ WholeBy(calls[1].path, 1)
    /\ calls[2].fate = "done" /\ WholeBy(calls[2].path, 2)
    /\ ld.pc = "done" /\ ld.sel

\* the directory call number j leaves behind, nothing of it from another call
WrittenBy(a, j) ==
    [kind |-> "dir",
     model |-> [st |-> "ok", w |-> a.model, by |-> j],
     opt |-> [st |-> "ok", flat |-> TreeFlatten(a.opt, <<>>), by |-> j],
     meta |-> [st |-> "ok", by |-> j,
               kv |-> IF a.withDL
                      THEN [step |-> a.step,
                            data_shard |-> a.loader.current_shard,
                            data_position |-> a.loader.current_position]
                      ELSE [step |-> a.step]]]

\* C5: two save_checkpoint calls that name the same directory both return
\* (the existing directory is no error), and the directory then holds the
\* second call's three artifacts and nothing of the first call's.
SecondWriteWins ==
    \A i, j \in 1 .. Len(calls) :
       (/\ i < j
        /\ nTamper = 0
        /\ calls[i].path = calls[j].path
        /\ \A k \in (j + 1) .. Len(calls) : calls[k].path # calls[j].path)
       => /\ calls[i].fate = "done"
          /\ calls[j].fate = "done"
          /\ calls[j].path = NamedDir(calls[j].args)
          /\ fs[calls[j].path] = WrittenBy(calls[j].args, j)

\* the first call recorded a cursor and other weights, the second did not
SecondWriteWinsWitness ==
    /\ Len(calls) = 2
    /\ nTamper = 0
    /\ calls[1].path = calls[2].path
    /\ calls[1].args.withDL /\ ~calls[2].args.withDL
    /\ calls[1].args.model # calls[2].args.model

\* C6 (as claimed): a subdirectory whose metadata artifact is there but
\* cannot be read is passed over: load_checkpoint returns (0, None) when
\* no candidate is left, and the greatest recorded step + 1 otherwise.
UnreadableContained ==
    (LoadEnded /\ rootExists /\ UnreadableDirs # {})
    => /\ ld.pc = "done"
       /\ IF Candidates = {}
          THEN ld.ret = Ret(0, NoneCursor)
          ELSE ld.ret.step = MaxRecordedStep + 1

\* the only metadata artifact of the root is unreadable and the call raises
UnreadableRaised ==
    /\ ld.pc = "raised"
    /\ rootExists
    /\ UnreadableDirs # {}
    /\ Candidates = {}

\* C7: with the root missing, or holding no subdirectory with a metadata
\* artifact, load_checkpoint returns (0, None) and leaves the model, the
\* optimizer and the data loader as they were.
EmptyRoot ==
    (/\ LoadEnded
     /\ \/ ~rootExists
        \/ \A n \in Names : fs[n].kind = "dir" => fs[n].meta.st = "absent")
    => /\ ld.pc = "done"
       /\ ld.ret = Ret(0, NoneCursor)
       /\ ld.model = ld.m0
       /\ ld.opt = ld.o0
       /\ ld.dl = ld.dl0

\* the root holds a subdirectory with weights and no metadata
EmptyRootWitness ==
    /\ ld.pc = "done"
    /\ rootExists
    /\ \E n \in Names : fs[n].kind = "dir" /\ fs[n].model.st = "ok"
    /\ \A n \in Names : fs[n].kind = "dir" => fs[n].meta.st = "absent"

\* C8: when the selected checkpoint lacks the optimizer artifact, or the
\* model artifact, load_checkpoint still returns the recorded step + 1; it
\* restores what is there and leaves the other object as it was.  (A cursor
\* that names no shard of the live loader is the matter of C18.)
PartialTolerance ==
    (LoadEnded /\ ld.sel /\ ShardKnown)
    => LET e == fs[ld.path]
       IN  /\ e.opt.st = "absent"
              => /\ ld.pc = "done"
                 /\ ld.ret.step = e.meta.kv["step"] + 1
                 /\ ld.opt = ld.o0
                 /\ e.model.st = "ok" => ld.model = e.model.w
           /\ e.model.st = "absent"
              => /\ ld.pc = "done"
                 /\ ld.ret.step = e.meta.kv["step"] + 1
                 /\ ld.model = ld.m0
                 /\ e.opt.st = "ok" => ld.opt = TreeUnflatten(e.opt.flat)
                 /\ {"data_shard", "data_position"} \subseteq DOMAIN e.meta.kv
                    => ld.ret.cursor = Cursor(e.meta.kv["data_shard"],
                                              e.meta.kv["data_position"])

\* the optimizer artifact is gone and the weights were restored
PartialToleranceWitness ==
    /\ ld.pc = "done" /\ ld.sel
    /\ fs[ld.path].opt.st = "absent"
    /\ fs[ld.path].model.st = "ok"
    /\ ld.model = fs[ld.path].model.w
    /\ ld.model # ld.m0

\* C9: the cursor load_checkpoint returns is {shard, position} when the
\* metadata holds both data_shard and data_position, and None when either
\* is missing; a live loader is then left untouched.  Whether a loader was
\* passed plays no part in the returned cursor.
CursorPairing ==
    (ld.pc = "done" /\ ld.sel)
    => LET kv == fs[ld.path].meta.kv
           both == {"data_shard", "data_position"} \subseteq DOMAIN kv
       IN  /\ ld.ret.cursor.has <=> both
           /\ both => ld.ret.cursor =
                         Cursor(kv["data_shard"], kv["data_position"])
           /\ ~both => ld.ret.cursor = NoneCursor /\ ld.dl = ld.dl0

\* a live loader was passed and the metadata holds only one of the keys
CursorPairingWitness ==
    /\ ld.pc = "done" /\ ld.sel /\ ld.withDL
    /\ "data_shard" \in DOMAIN fs[ld.path].meta.kv
    /\ "data_position" \notin DOMAIN fs[ld.path].meta.kv

\* what load_checkpoint restores and returns is what one call with
\* arguments a saved
RestoresCall(a) ==
    /\ ld.model = a.model
    /\ ld.opt = TreeUnflatten(TreeFlatten(a.opt, <<>>))
    /\ ld.ret = Ret(a.step + 1,
                    IF a.withDL THEN Cursor(a.loader.current_shard,
                                            a.loader.current_position)
                                ELSE NoneCursor)

\* C10 (as claimed): a load_checkpoint call that runs while save_checkpoint
\* calls run restores weights, optimizer state, step and cursor that all
\* come from one and the same save_checkpoint call, never from two.
NoTornRead ==
    (ld.pc = "done" /\ ld.sel)
    => \E k \in 1 .. Len(calls) : RestoresCall(calls[k].args)

\* load_checkpoint returned the weights one call wrote with the optimizer
\* state, step and cursor another call wrote, and the weights differ
TornRead ==
    /\ ld.pc = "done" /\ ld.sel
    /\ ld.byModel \in 1 .. Len(calls)
    /\ ld.byMeta \in 1 .. Len(calls)
    /\ ld.byModel # ld.byMeta
    /\ ld.byOpt = ld.byMeta /\ ld.byCursor = ld.byMeta
    /\ ld.model # calls[ld.byMeta].args.model

\* C11: when load_checkpoint returns, was handed a live data loader and the
\* selected metadata holds both cursor fields, the loader's current_shard and
\* current_position are the recorded ones and its tokens are the content of
\* shards[data_shard]; when a cursor field is missing the loader is as it was.
LoaderRestored ==
    (ld.pc = "done" /\ ld.sel /\ ld.withDL)
    => LET kv == fs[ld.path].meta.kv
       IN  IF {"data_shard", "data_position"} \subseteq DOMAIN kv
           THEN /\ ld.dl.current_shard = kv["data_shard"]
                /\ ld.dl.current_position = kv["data_position"]
                /\ ld.dl.tokens = LoadTokens(ld.dl0.shards[kv["data_shard"] + 1])
                /\ ld.dl.shards = ld.dl0.shards
           ELSE ld.dl = ld.dl0

\* the loader was moved to another shard and holds that shard's tokens
LoaderRestoredWitness ==
    /\ ld.pc = "done" /\ ld.sel /\ ld.withDL
    /\ {"data_shard", "data_position"} \subseteq DOMAIN fs[ld.path].meta.kv
    /\ ld.dl.current_shard # ld.dl0.current_shard
    /\ ld.dl.tokens # ld.dl0.tokens

\* C12: after any sequence of save_checkpoint calls, every directory with a
\* metadata artifact records a step, the step argument (>= 0) of the call
\* that wrote it, and holds data_shard and data_position both, with the
\* loader's current_shard and current_position, exactly when that call was
\* handed a data loader, and neither otherwise.
MetadataWellFormed ==
    nTamper = 0
    => \A d \in Names :
          fs[d].meta.st # "absent"
          => LET k == fs[d].meta.by
                 kv == fs[d].meta.kv
             IN  /\ fs[d].meta.st = "ok"
                 /\ k \in 1 .. Len(calls)
                 /\ NamedDir(calls[k].args) = d
                 /\ "step" \in DOMAIN kv
                 /\ kv["step"] = calls[k].args.step
                 /\ kv["step"] >= 0
                 /\ IF calls[k].args.withDL
                    THEN /\ DOMAIN kv = {"step", "data_shard", "data_position"}
                         /\ kv["data_shard"] = calls[k].args.loader.current_shard
                         /\ kv["data_position"] =
                               calls[k].args.loader.current_position
                    ELSE DOMAIN kv = {"step"}

\* one directory records a cursor away from the start, another records none
MetadataWellFormedWitness ==
    /\ nTamper = 0
    /\ \E d, e \in Names :
          /\ fs[d].meta.st = "ok" /\ fs[e].meta.st = "ok"
          /\ DOMAIN fs[d].meta.kv = {"step", "data_shard", "data_position"}
          /\ fs[d].meta.kv["data_shard"] > 0
          /\ DOMAIN fs[e].meta.kv = {"step"}
          /\ fs[e].meta.kv["step"] > 0

\* C13: load_checkpoint selects no entry of the root that is not a directory
\* and no subdirectory without a metadata artifact, and loads no model or
\* optimizer artifact of such an entry: what it loads is of the selected
\* directory, and without a selection it loads nothing.
NoMetadataNoCandidate ==
    LoadEnded
    => IF ld.sel
       THEN LET e == fs[ld.path]
            IN  /\ e.kind = "dir"
                /\ e.meta.st # "absent"
                /\ ld.model = IF e.model.st = "ok" THEN e.model.w ELSE ld.m0
                /\ ld.opt = IF e.opt.st = "ok" THEN TreeUnflatten(e.opt.flat)
                                               ELSE ld.o0
       ELSE /\ ld.model = ld.m0
            /\ ld.opt = ld.o0
            /\ ld.byModel = 0 /\ ld.byOpt = 0

\* the only entry of the root is the directory named for the highest step,
\* with weights and optimizer state and no metadata, and the call returned
NoMetadataNoCandidateWitness ==
    /\ ld.pc = "done" /\ ~ld.sel
    /\ Listdir = {StepDir(MaxStep)}
    /\ fs[StepDir(MaxStep)].model.st = "ok"
    /\ fs[StepDir(MaxStep)].opt.st = "ok"
    /\ fs[StepDir(MaxStep)].meta.st = "absent"

\* the places in the enumeration of the candidates with the greatest step
MaximalAt ==
    { i \in 1 .. Len(ld.listing) :
         /\ ld.listing[i] \in Candidates
         /\ fs[ld.listing[i]].meta.kv["step"] = MaxRecordedStep }

\* C14: when several candidates share the greatest recorded step,
\* load_checkpoint restores from exactly one of them, the first of them in
\* the order of the directory enumeration, and every artifact it reads is of
\* that directory.  The directory is thus a function of the root's contents
\* and the enumeration order: two loads over the same contents and order
\* select the same directory.
TieBreak ==
    (LoadEnded /\ ld.sel)
    => /\ MaximalAt # {}
       /\ ld.path = ld.listing[CHOOSE i \in MaximalAt :
                                  \A j \in MaximalAt : i <= j]
       /\ ld.byMeta = fs[ld.path].meta.by
       /\ ld.byModel = IF fs[ld.path].model.st = "ok"
                       THEN fs[ld.path].model.by ELSE 0
       /\ ld.byOpt = IF fs[ld.path].opt.st = "ok"
                     THEN fs[ld.path].opt.by ELSE 0

\* checkpoint_step_S and final record the same step, the numbered directory
\* is enumerated first and is the one selected
TieBreakWitness ==
    /\ ld.pc = "done" /\ ld.sel
    /\ Len(ld.listing) = 2
    /\ Cardinality(MaximalAt) = 2
    /\ ld.listing[2] = Final
    /\ ld.path = ld.listing[1]

\* C15 (as claimed): the optimizer state load_checkpoint rebuilds from what
\* save_checkpoint wrote for a state x has the shape and the values of x,
\* lists being lists and dicts dicts at every level, and no other state is
\* stored as the same mapping.
FlattenBijective ==
    \A k \in 1 .. Len(calls) :
       LET x == calls[k].args.opt
           d == NamedDir(calls[k].args)
       IN  (ld.pc = "done" /\ ld.sel /\ ld.path = d /\ WholeBy(d, k))
           => /\ ld.opt = x
              /\ \A y \in Trees :
                    y # x => TreeFlatten(y, <<>>) # fs[d].opt.flat

\* a state with a list of two arrays and an empty dict beside it is rebuilt
\* with the list and without the dict
FlattenLoss ==
    \E k \in 1 .. Len(calls) :
       LET x == calls[k].args.opt
           d == NamedDir(calls[k].args)
       IN  /\ ld.pc = "done" /\ ld.sel /\ ld.path = d /\ WholeBy(d, k)
           /\ x = DictT({ Item(<<"a">>, ListT(<<Leaf(1), Leaf(2)>>)),
                          Item(<<"b">>, DictT({})) })
           /\ ld.opt = DictT({ Item(<<"a">>, ListT(<<Leaf(1), Leaf(2)>>)) })
           /\ TreeFlatten(ld.opt, <<>>) = TreeFlatten(x, <<>>)

\* C16: load_checkpoint creates, changes and deletes nothing under the root;
\* a save_checkpoint call changes only the directory it names; and no call
\* removes an entry of the root or an artifact of a directory.
Frame ==
    [][nTamper' = nTamper
       => /\ rootExists => rootExists'
          /\ (calls' = calls /\ sv.pc = "idle" /\ sv' = sv)
             => (fs' = fs /\ rootExists' = rootExists)
          /\ \A d \in Names :
                /\ ~Rewrites(d) => fs'[d] = fs[d]
                /\ fs[d].kind # "none" => fs'[d].kind = fs[d].kind
                /\ fs[d].model.st # "absent" => fs'[d].model.st # "absent"
                /\ fs[d].opt.st # "absent" => fs'[d].opt.st # "absent"
                /\ fs[d].meta.st # "absent" => fs'[d].meta.st # "absent"]_vars

\* a second call wrote another directory beside the first call's, which is
\* still whole, and a load with a live data loader restored its cursor
FrameWitness ==
    /\ Len(calls) = 2
    /\ nTamper = 0
    /\ calls[1].path # calls[2].path
    /\ WholeBy(calls[1].path, 1)
    /\ ld.pc = "done" /\ ld.sel /\ ld.withDL
    /\ ld.dl # ld.dl0

\* the save_checkpoint calls so far all returned, with increasing steps, and
\* nothing else wrote to the root
IncreasingSaves ==
    /\ nTamper = 0
    /\ calls # <<>>
    /\ \A i \in 1 .. Len(calls) : calls[i].fate = "done"
    /\ \A i, j \in 1 .. Len(calls) :
          i < j => calls[i].args.step < calls[j].args.step

\* C17 (as claimed): after save_checkpoint calls with strictly increasing
\* steps into an empty root, final or not, load_checkpoint returns the last
\* call's step + 1 and restores the model, the optimizer state and the
\* cursor handed to that last call.
ResumeLast ==
    (LoadEnded /\ IncreasingSaves)
    => LET a == calls[Len(calls)].args
       IN  /\ ld.pc = "done"
           /\ ld.ret = Ret(a.step + 1,
                           IF a.withDL THEN Cursor(a.loader.current_shard,
                                                   a.loader.current_position)
                                       ELSE NoneCursor)
           /\ ld.model = a.model
           /\ ld.opt = a.opt

\* two calls, the second into another directory: the load returns its step
\* + 1 and its weights, and an optimizer state that is not the one it saved
ResumeLoss ==
    /\ ld.pc = "done"
    /\ IncreasingSaves
    /\ Len(calls) = 2
    /\ calls[1].path # calls[2].path
    /\ ld.path = calls[2].path
    /\ ld.ret.step = calls[2].args.step + 1
    /\ ld.model = calls[2].args.model
    /\ ld.opt # calls[2].args.opt

\* C18 (as claimed): however load_checkpoint ends, by returning or by
\* raising, the data loader's tokens are the content of
\* shards[current_shard], as they were before the call.
TokensMatchShard ==
    (LoadEnded /\ ld.dl0.tokens = LoadTokens(ld.dl0.shards[ld.dl0.current_shard + 1]))
    => /\ ld.dl.current_shard < Len(ld.dl.shards)
       /\ ld.dl.tokens = LoadTokens(ld.dl.shards[ld.dl.current_shard + 1])

\* the call raised at the shard lookup: the loader's cursor is the recorded
\* one, its tokens are still those of the shard it had before
HalfRestoredLoader ==
    /\ ld.pc = "raised" /\ ld.sel /\ ld.withDL
    /\ ld.dl.current_shard = fs[ld.path].meta.kv["data_shard"]
    /\ ld.dl.current_shard # ld.dl0.current_shard
    /\ ld.dl.tokens = ld.dl0.tokens
=============================================================================
